---- MODULE Spec2Model ----
(***************************************************************************)
(* The memory proxy route (src/app/api/memory/route.ts): four async        *)
(* handlers POST, GET, DELETE, PUT.  Each handler is a straight line of    *)
(* code cut by its awaits (auth(), request.json(), the SDK call) and       *)
(* wrapped in one try/catch.  A slot holds one handler invocation; an      *)
(* action runs the synchronous segment between two awaits.                 *)
(*                                                                         *)
(* Spec serves the requests one at a time over a wide input domain;        *)
(* SpecConcurrent interleaves them at every await over a narrow one.       *)
(***************************************************************************)
EXTENDS Integers, Sequences, FiniteSets, TLC

VARIABLES env, pc, req, session, calls, settled, completions, errlog

vars == <<env, pc, req, session, calls, settled, completions, errlog>>

(***************************************************************************)
(* Bounds of the model.                                                    *)
(***************************************************************************)
NSlots == 2
MaxTopics == 2

Slots == 1..NSlots

(***************************************************************************)
(* JavaScript values, tagged by type.                                      *)
(***************************************************************************)
Undefined == [t |-> "undefined"]
Null == [t |-> "null"]
Bool(b) == [t |-> "boolean", v |-> b]
Str(s) == [t |-> "string", v |-> s]
Num(n) == [t |-> "number", v |-> n]
Arr(a) == [t |-> "array", v |-> a]
Obj(f) == [t |-> "object", v |-> f]

NoFields == [k \in {} |-> Undefined]
EmptyObj == Obj(NoFields)

Nullish(x) == x.t \in {"undefined", "null"}
IsObject(x) == x.t \in {"object", "array"}

\* !x is false exactly for these
Truthy(x) ==
  CASE x.t \in {"undefined", "null"} -> FALSE
    [] x.t = "boolean" -> x.v
    [] x.t = "string" -> x.v # ""
    [] x.t = "number" -> x.v # 0
    [] OTHER -> TRUE

\* a || b
Or(a, b) == IF Truthy(a) THEN a ELSE b

\* destructuring default: applies to undefined only
Default(a, d) == IF a = Undefined THEN d ELSE a

\* o.k on a non-nullish value (a primitive or an array has none of the keys used here)
Get(o, k) == IF o.t = "object" /\ k \in DOMAIN o.v THEN o.v[k] ELSE Undefined

\* o.k = x on an object
Set(o, k, x) == Obj([f \in (DOMAIN o.v) \cup {k} |-> IF f = k THEN x ELSE o.v[f]])

\* { ...o }: the own enumerable properties of an object; a number, a boolean,
\* null and undefined spread to nothing
Spread(o) == IF o.t = "object" THEN o.v ELSE NoFields

\* { ...a, ...b }: later keys win
Merge(a, b) == [f \in (DOMAIN a) \cup (DOMAIN b) |-> IF f \in DOMAIN b THEN b[f] ELSE a[f]]

\* JSON.stringify followed by the client's parse: properties whose value is
\* undefined are dropped, at every depth
RECURSIVE JsonStringify(_)
JsonStringify(x) ==
  IF x.t = "object"
    THEN LET keep == {f \in DOMAIN x.v : x.v[f] # Undefined}
         IN Obj([f \in keep |-> JsonStringify(x.v[f])])
    ELSE x

Error(name, message) == [name |-> name, message |-> message]

\* a settled promise
Resolved(x) == [ok |-> TRUE, value |-> x]
Rejected(e) == [ok |-> FALSE, error |-> e]

(***************************************************************************)
(* What a synchronous segment of a handler ends in.                        *)
(***************************************************************************)
Throw(e) == [k |-> "throw", error |-> e]
Return(response) == [k |-> "return", response |-> response]
AwaitJson == [k |-> "json"]
AwaitRemote(method, args, client) ==
  [k |-> "remote", call |-> [method |-> method, args |-> args, client |-> client]]

\* NextResponse.json(body, { status }); the status defaults to 200
NextResponseJson(body, status) == [status |-> status, body |-> JsonStringify(body)]

(***************************************************************************)
(* getPaprClient: the API key and base URL come from process.env.  A URL   *)
(* is a sequence of tokens, so that startsWith and replace act on it.      *)
(***************************************************************************)
DefaultBaseURL == <<"https://", "memory.papr.ai">>

RECURSIVE ReplaceFirst(_, _)
ReplaceFirst(s, tok) ==
  IF s = <<>> THEN <<>>
  ELSE IF Head(s) = tok THEN Tail(s)
  ELSE <<Head(s)>> \o ReplaceFirst(Tail(s), tok)

secureBaseURL(baseURL) ==
  IF Len(baseURL) > 0 /\ Head(baseURL) = "https://"
    THEN baseURL
    ELSE <<"https://">> \o ReplaceFirst(baseURL, "http://")

\* variant: the key is passed on without the check
getPaprClientUnchecked(e) ==
  LET baseURL == IF Truthy(e.PAPR_MEMORY_API_URL)
                   THEN e.PAPR_MEMORY_API_URL.v ELSE DefaultBaseURL
  IN [k |-> "value",
      value |-> [xAPIKey |-> e.PAPR_MEMORY_API_KEY,
                 baseURL |-> secureBaseURL(baseURL)]]

getPaprClient(e) ==
  IF ~Truthy(e.PAPR_MEMORY_API_KEY)
    THEN Throw(Error("Error", "PAPR_MEMORY_API_KEY is not defined"))
    ELSE LET baseURL == IF Truthy(e.PAPR_MEMORY_API_URL)
                          THEN e.PAPR_MEMORY_API_URL.v ELSE DefaultBaseURL
         IN [k |-> "value",
             value |-> [xAPIKey |-> e.PAPR_MEMORY_API_KEY,
                        baseURL |-> secureBaseURL(baseURL)]]

(***************************************************************************)
(* The session check shared by the four handlers.                          *)
(***************************************************************************)
\* variant: only the session itself is checked
UnauthorizedLax(s) == ~Truthy(s)

Unauthorized(s) ==
  \/ ~Truthy(s)
  \/ ~Truthy(Get(s, "user"))
  \/ ~Truthy(Get(Get(s, "user"), "id"))

UnauthorizedResponse == NextResponseJson(Obj([error |-> Str("Unauthorized")]), 401)

BadRequest(message) == NextResponseJson(Obj([error |-> Str(message)]), 400)

\* the first segment of every handler: const session = await auth(); the check
AuthCheck(a) ==
  IF ~a.ok THEN Throw(a.error)
  ELSE IF Unauthorized(a.value) THEN Return(UnauthorizedResponse)
  ELSE [k |-> "continue"]

SessionUserId(s) == Get(Get(s, "user"), "id")

\* the static message of each handler's catch block
FailureMessage(method) ==
  CASE method = "POST" -> "Failed to add memory"
    [] method = "GET" -> "Failed to search memories"
    [] method = "DELETE" -> "Failed to delete memory"
    [] method = "PUT" -> "Failed to update memory"

\* variant: the caught error's message is sent to the caller
CatchLeaky(method, error) ==
  NextResponseJson(Obj([error |-> Str(error.message)]), 500)

\* catch (error) { console.error(..., error); return NextResponse.json({error: <static>}, {status: 500}) }
Catch(method, error) ==
  NextResponseJson(Obj([error |-> Str(FailureMessage(method))]), 500)

\* url.searchParams.get(name): the value, or null
searchParamsGet(query, name) == IF name \in DOMAIN query THEN Str(query[name]) ELSE Null

(***************************************************************************)
(* POST: add a memory.                                                     *)
(***************************************************************************)
\* variant: the client's keys are spread last and win
customMetadataClientWins(metadata, s) ==
  Obj(Merge([api_source |-> Str("memory_route"), app_user_id |-> SessionUserId(s)],
            Spread(Get(metadata, "customMetadata"))))

customMetadata(metadata, s) ==
  Obj(Merge(Spread(Get(metadata, "customMetadata")),
            [api_source |-> Str("memory_route"), app_user_id |-> SessionUserId(s)]))

\* variant: the topics are collected back to front
topicsReversed(metadata) ==
  LET tp == Or(Get(metadata, "topics"), Arr(<<>>))
  IN IF tp.t = "array"
       THEN Arr([i \in 1..Len(tp.v) |-> tp.v[Len(tp.v) + 1 - i]])
       ELSE tp

\* metadata.topics || []
topics(metadata) == Or(Get(metadata, "topics"), Arr(<<>>))

memoryMetadata(metadata, s, now) ==
  Obj(  "sourceType" :> Or(Get(metadata, "sourceType"), Str("PaprChat"))
     @@ "user_id" :> SessionUserId(s)
     @@ "external_user_id" :> SessionUserId(s)
     @@ "createdAt" :> Or(Get(metadata, "createdAt"), Str(now))
     @@ "sourceUrl" :> Get(metadata, "sourceUrl")
     @@ "conversationId" :> Get(metadata, "conversationId")
     @@ "topics" :> topics(metadata)
     @@ "emoji tags" :> Or(Get(metadata, "emoji tags"), Arr(<<>>))
     @@ "hierarchical_structures" :> Get(metadata, "hierarchical_structures")
     @@ "workspace_id" :> Get(metadata, "workspace_id")
     @@ "customMetadata" :> customMetadata(metadata, s))

memoryParams(content, type, metadata) ==
  Obj([content |-> content, type |-> type, metadata |-> metadata])

\* from request.json() settling to the await of client.memory.add
POST_json(s, json, now, e) ==
  IF ~json.ok THEN Throw(json.error)
  ELSE IF Nullish(json.value)
    THEN Throw(Error("TypeError", "Cannot destructure property 'content'"))
  ELSE
    LET content == Get(json.value, "content")
        type == Default(Get(json.value, "type"), Str("text"))
        metadata == Default(Get(json.value, "metadata"), EmptyObj)
        client == getPaprClient(e)
    IN IF ~Truthy(content) THEN Return(BadRequest("Content is required"))
       ELSE IF client.k = "throw" THEN client
       ELSE IF Nullish(metadata)
         THEN Throw(Error("TypeError", "Cannot read properties of null"))
       ELSE IF ~Truthy(Get(metadata, "customMetadata")) /\ ~IsObject(metadata)
         THEN Throw(Error("TypeError", "Cannot create property 'customMetadata'"))
       ELSE
         LET withCustom == IF ~Truthy(Get(metadata, "customMetadata"))
                             THEN Set(metadata, "customMetadata", EmptyObj)
                             ELSE metadata
         IN AwaitRemote("add",
                        <<memoryParams(content, type, memoryMetadata(withCustom, s, now))>>,
                        client.value)

\* from client.memory.add settling to the response
POST_remote(reply) ==
  IF ~reply.ok THEN Throw(reply.error)
  ELSE IF Nullish(reply.value)
    THEN Throw(Error("TypeError", "Cannot read properties of undefined (reading 'data')"))
  ELSE Return(NextResponseJson(
         Obj([success |-> Bool(TRUE), data |-> Get(reply.value, "data")]), 200))

(***************************************************************************)
(* GET: search memories.                                                   *)
(***************************************************************************)
searchParams(query, s) == Obj([query |-> query, user_id |-> SessionUserId(s)])

\* variant: the query parameter is passed on
searchOptionsFromQuery(maxMemories) == Obj([query |-> Obj([max_memories |-> maxMemories])])

\* the request options of client.memory.search; maxMemories is computed by
\* the handler and not used
searchOptions(maxMemories) == Obj([query |-> Obj([max_memories |-> Num(25)])])

GET_url(s, url, e) ==
  LET query == searchParamsGet(url, "query")
      maxMemories == Or(searchParamsGet(url, "max_memories"), Str("25"))
      client == getPaprClient(e)
  IN IF ~Truthy(query) THEN Return(BadRequest("Query parameter is required"))
     ELSE IF client.k = "throw" THEN client
     ELSE AwaitRemote("search",
                      <<searchParams(query, s), searchOptions(maxMemories)>>,
                      client.value)

GET_remote(reply) == POST_remote(reply)

(***************************************************************************)
(* DELETE: delete a memory.                                                *)
(***************************************************************************)
DELETE_url(s, url, e) ==
  LET memoryId == searchParamsGet(url, "id")
      client == getPaprClient(e)
  IN IF ~Truthy(memoryId) THEN Return(BadRequest("Memory ID is required"))
     ELSE IF client.k = "throw" THEN client
     ELSE AwaitRemote("delete", <<memoryId>>, client.value)

DELETE_remote(reply) ==
  IF ~reply.ok THEN Throw(reply.error)
  ELSE Return(NextResponseJson(Obj([success |-> Bool(TRUE), data |-> reply.value]), 200))

(***************************************************************************)
(* PUT: update a memory.                                                   *)
(***************************************************************************)
\* variant: the defaults of POST are applied
updateParamsDefaulted(content, metadata, type) ==
  Obj([content |-> content,
       metadata |-> Default(metadata, EmptyObj),
       type |-> Default(type, Str("text"))])

updateParams(content, metadata, type) ==
  Obj([content |-> content, metadata |-> metadata, type |-> type])

PUT_json(s, json, e) ==
  IF ~json.ok THEN Throw(json.error)
  ELSE IF Nullish(json.value)
    THEN Throw(Error("TypeError", "Cannot destructure property 'memory_id'"))
  ELSE
    LET memory_id == Get(json.value, "memory_id")
        content == Get(json.value, "content")
        metadata == Get(json.value, "metadata")
        type == Get(json.value, "type")
        client == getPaprClient(e)
    IN IF ~Truthy(memory_id) THEN Return(BadRequest("Memory ID is required"))
       ELSE IF client.k = "throw" THEN client
       ELSE AwaitRemote("update",
                        <<memory_id, updateParams(content, metadata, type)>>,
                        client.value)

PUT_remote(reply) == DELETE_remote(reply)

(***************************************************************************)
(* The segments of a handler, by the await they start from.                *)
(***************************************************************************)
AfterAuth(rq, a, e) ==
  LET c == AuthCheck(a)
  IN IF c.k # "continue" THEN c
     ELSE CASE rq.method = "POST" -> AwaitJson
            [] rq.method = "PUT" -> AwaitJson
            [] rq.method = "GET" -> GET_url(a.value, rq.url, e)
            [] rq.method = "DELETE" -> DELETE_url(a.value, rq.url, e)

AfterJson(rq, s, now, e) ==
  CASE rq.method = "POST" -> POST_json(s, rq.body, now, e)
    [] rq.method = "PUT" -> PUT_json(s, rq.body, e)

\* variant: a rejected call is swallowed and reported as a success
AfterRemoteSwallow(rq, reply) ==
  Return(NextResponseJson(
    Obj([success |-> Bool(TRUE),
         data |-> IF reply.ok THEN reply.value ELSE Undefined]), 200))

AfterRemote(rq, reply) ==
  CASE rq.method = "POST" -> POST_remote(reply)
    [] rq.method = "GET" -> GET_remote(reply)
    [] rq.method = "DELETE" -> DELETE_remote(reply)
    [] rq.method = "PUT" -> PUT_remote(reply)

(***************************************************************************)
(* Inputs.  A request is its method, its URL's query parameters and what   *)
(* request.json() settles to.  A parsed JSON value has no undefined        *)
(* property: FromJson drops them, so an option of Undefined means absent.  *)
(***************************************************************************)
FromJson(f) == JsonStringify(Obj(f))

SeqsUpTo(S, n) == UNION {[1..k -> S] : k \in 0..n}

UserIds == {"u1", "u2"}

SessionOf(id) == Obj([user |-> Obj([id |-> Str(id)])])

AuthOutcomes ==
  {Rejected(Error("Error", "auth backend unreachable")),
   Resolved(Null),
   Resolved(EmptyObj),
   Resolved(Obj([user |-> Null])),
   Resolved(Obj([user |-> EmptyObj])),
   Resolved(Obj([user |-> Obj([id |-> Str("")])]))}
  \cup {Resolved(SessionOf(id)) : id \in UserIds}

TopicsOptions ==
  {Undefined, Str("")} \cup {Arr(a) : a \in SeqsUpTo({"a", "b"}, MaxTopics)}

CustomMetadataOptions ==
  {Undefined, Null,
   Obj([project |-> Str("p1")]),
   Obj([api_source |-> Str("spoofed"), app_user_id |-> Str("u2"), project |-> Str("p1")])}

\* the descriptive fields other than topics come together or not at all
ProvenanceOptions ==
  {NoFields,
   "sourceType" :> Str("Slack") @@ "createdAt" :> Str("2020-01-01T00:00:00.000Z")
   @@ "sourceUrl" :> Str("https://example.test/1") @@ "conversationId" :> Str("c1")
   @@ "emoji tags" :> Arr(<<"x", "y">>)
   @@ "hierarchical_structures" :> Str("h1") @@ "workspace_id" :> Str("w1")}

ClientMetadata ==
  {FromJson(Merge(prov,
                  "topics" :> tp
                  @@ "user_id" :> uid @@ "external_user_id" :> uid
                  @@ "customMetadata" :> cm)) :
     prov \in ProvenanceOptions, tp \in TopicsOptions,
     uid \in {Undefined, Str("u2")}, cm \in CustomMetadataOptions}

SpoofedMetadata ==
  FromJson([user_id |-> Str("u2"), external_user_id |-> Str("u2"),
            topics |-> Arr(<<"a">>),
            customMetadata |-> Obj([api_source |-> Str("spoofed"),
                                    app_user_id |-> Str("u2")])])

SyntaxError == Error("SyntaxError", "Unexpected end of JSON input")

PostBodies ==
  {Rejected(SyntaxError), Resolved(Null), Resolved(Str("hello")), Resolved(EmptyObj)}
  \cup {Resolved(FromJson([content |-> c, type |-> Undefined, metadata |-> m])) :
          c \in {Undefined, Str("")}, m \in {Undefined, SpoofedMetadata}}
  \cup {Resolved(FromJson([content |-> Str("hello"), type |-> Str("document"),
                           metadata |-> m])) :
          m \in {Undefined, Null, Str("m"), SpoofedMetadata}}
  \cup {Resolved(FromJson([content |-> Str("hello"), type |-> Undefined, metadata |-> m])) :
          m \in {Undefined} \cup ClientMetadata}

PutBodies ==
  {Rejected(SyntaxError), Resolved(Null), Resolved(EmptyObj)}
  \cup {Resolved(FromJson([memory_id |-> id, content |-> c, metadata |-> m, type |-> ty])) :
          id \in {Undefined, Str(""), Str("m1")},
          c \in {Undefined, Str("edited")},
          m \in {Undefined, Null, SpoofedMetadata},
          ty \in {Undefined, Str("document")}}

SearchUrls ==
  {FromJson([query |-> q, max_memories |-> n]).v :
     q \in {Undefined, Str(""), Str("cats")},
     n \in {Undefined, Str("5"), Str("100"), Str("many")}}

\* Str(x).v is x: a query parameter is a bare string
QueryOf(o) == [f \in DOMAIN o |-> o[f].v]

DeleteUrls ==
  {FromJson([id |-> i]).v : i \in {Undefined, Str(""), Str("m1")}}

NoUrl == NoFields
NoBody == Rejected(SyntaxError)

Requests ==
  {[method |-> "POST", url |-> NoUrl, body |-> b] : b \in PostBodies}
  \cup {[method |-> "PUT", url |-> NoUrl, body |-> b] : b \in PutBodies}
  \cup {[method |-> "GET", url |-> QueryOf(u), body |-> NoBody] : u \in SearchUrls}
  \cup {[method |-> "DELETE", url |-> QueryOf(u), body |-> NoBody] : u \in DeleteUrls}

Clock == {"2026-03-01T10:00:00.000Z", "2026-03-01T10:00:01.000Z"}

\* what the SDK call settles to
RemoteOutcomes ==
  {Rejected(Error("APIError", "404 memory not found")),
   Rejected(Error("APIConnectionError", "ECONNRESET")),
   Resolved(Undefined),
   Resolved(EmptyObj),
   Resolved(Obj([data |-> Str("d1")]))}

\* process.env; the URL is read only once the key is found
Environments ==
  {[PAPR_MEMORY_API_KEY |-> key, PAPR_MEMORY_API_URL |-> Undefined] :
     key \in {Undefined, Str("")}}
  \cup {[PAPR_MEMORY_API_KEY |-> Str("key-1"), PAPR_MEMORY_API_URL |-> url] :
          url \in {Undefined, Str(<<"https://", "papr.test">>),
                   Str(<<"http://", "papr.test">>), Str(<<"papr.test">>)}}

(***************************************************************************)
(* State.  Per slot: where the handler is suspended, the request it was    *)
(* given, its local session, the SDK calls it issued, what its SDK call    *)
(* settled to, what the handler's promise settled to (a response, or the   *)
(* error that escaped it) and what console.error logged.                   *)
(***************************************************************************)
\* a const that its declaration has not yet assigned
Unassigned == [t |-> "unassigned"]

NoRequest == [method |-> "none", url |-> NoUrl, body |-> NoBody]

Fresh(e) ==
  /\ env = e
  /\ pc = [r \in Slots |-> "idle"]
  /\ req = [r \in Slots |-> NoRequest]
  /\ session = [r \in Slots |-> Unassigned]
  /\ calls = [r \in Slots |-> <<>>]
  /\ settled = [r \in Slots |-> <<>>]
  /\ completions = [r \in Slots |-> <<>>]
  /\ errlog = [r \in Slots |-> <<>>]

Init == \E e \in Environments : Fresh(e)

\* a segment ended: suspend at the next await, or complete through return or catch
Finish(r, seg) ==
  /\ pc' = [pc EXCEPT ![r] = IF seg.k \in {"json", "remote"} THEN seg.k ELSE "done"]
  /\ calls' = [calls EXCEPT ![r] = IF seg.k = "remote" THEN Append(@, seg.call) ELSE @]
  /\ completions' = [completions EXCEPT ![r] =
       CASE seg.k = "return" -> Append(@, Resolved(seg.response))
         [] seg.k = "throw" -> Append(@, Resolved(Catch(req[r].method, seg.error)))
         [] OTHER -> @]
  /\ errlog' = [errlog EXCEPT ![r] = IF seg.k = "throw" THEN Append(@, seg.error) ELSE @]

\* the framework calls the handler, which runs to await auth()
Invoke(r, rq) ==
  /\ pc[r] = "idle"
  /\ pc' = [pc EXCEPT ![r] = "auth"]
  /\ req' = [req EXCEPT ![r] = rq]
  /\ UNCHANGED <<env, session, calls, settled, completions, errlog>>

\* auth() settles
AuthSettled(r, a) ==
  /\ pc[r] = "auth"
  /\ session' = [session EXCEPT ![r] = IF a.ok THEN a.value ELSE @]
  /\ Finish(r, AfterAuth(req[r], a, env))
  /\ UNCHANGED <<env, req, settled>>

\* variant: session is one binding of the module, last written by any invocation
SharedSession(r) ==
  LET others == {o \in Slots \ {r} : session[o] # Unassigned}
  IN IF others = {} THEN session[r] ELSE session[CHOOSE o \in others : TRUE]

\* const session: a local of the invocation
LocalSession(r) == session[r]

\* request.json() settles
JsonSettled(r, now) ==
  /\ pc[r] = "json"
  /\ Finish(r, AfterJson(req[r], LocalSession(r), now, env))
  /\ UNCHANGED <<env, req, session, settled>>

\* the SDK call settles
RemoteSettled(r, reply) ==
  /\ pc[r] = "remote"
  /\ settled' = [settled EXCEPT ![r] = Append(@, reply)]
  /\ Finish(r, AfterRemote(req[r], reply))
  /\ UNCHANGED <<env, req, session>>

\* the response has been sent and the invocation is gone
Release(r) ==
  /\ pc[r] = "done"
  /\ pc' = [pc EXCEPT ![r] = "idle"]
  /\ req' = [req EXCEPT ![r] = NoRequest]
  /\ session' = [session EXCEPT ![r] = Unassigned]
  /\ calls' = [calls EXCEPT ![r] = <<>>]
  /\ settled' = [settled EXCEPT ![r] = <<>>]
  /\ completions' = [completions EXCEPT ![r] = <<>>]
  /\ errlog' = [errlog EXCEPT ![r] = <<>>]
  /\ UNCHANGED env

\* requests served one at a time, over the wide input domain
Quiet(r) == \A o \in Slots \ {r} : pc[o] = "idle"

Next ==
  \E r \in Slots :
    \/ \E rq \in Requests : Quiet(r) /\ Invoke(r, rq)
    \/ \E a \in AuthOutcomes : AuthSettled(r, a)
    \/ \E now \in Clock : JsonSettled(r, now)
    \/ \E reply \in RemoteOutcomes : RemoteSettled(r, reply)
    \/ Release(r)

Spec == Init /\ [][Next]_vars

(***************************************************************************)
(* Interleaved requests, over a narrow input domain.                       *)
(***************************************************************************)
FewRequests ==
  {[method |-> "POST", url |-> NoUrl,
    body |-> Resolved(FromJson([content |-> Str("hello"), metadata |-> SpoofedMetadata]))],
   [method |-> "POST", url |-> NoUrl,
    body |-> Resolved(FromJson([content |-> Str("other"),
                                metadata |-> Obj([topics |-> Arr(<<"b", "a">>)])]))],
   [method |-> "PUT", url |-> NoUrl,
    body |-> Resolved(FromJson([memory_id |-> Str("m1"), content |-> Str("edited"),
                                metadata |-> SpoofedMetadata]))],
   [method |-> "GET", url |-> [query |-> "cats"], body |-> NoBody],
   [method |-> "DELETE", url |-> [id |-> "m1"], body |-> NoBody]}

FewAuthOutcomes == {Resolved(Null)} \cup {Resolved(SessionOf(id)) : id \in UserIds}

FewRemoteOutcomes ==
  {Rejected(Error("APIConnectionError", "ECONNRESET")),
   Resolved(Obj([data |-> Str("d1")])),
   Resolved(Obj([data |-> Str("d2")]))}

InitConcurrent ==
  Fresh([PAPR_MEMORY_API_KEY |-> Str("key-1"), PAPR_MEMORY_API_URL |-> Undefined])

NextConcurrent ==
  \E r \in Slots :
    \/ \E rq \in FewRequests : Invoke(r, rq)
    \/ \E a \in FewAuthOutcomes : AuthSettled(r, a)
    \/ JsonSettled(r, "2026-03-01T10:00:00.000Z")
    \/ \E reply \in FewRemoteOutcomes : RemoteSettled(r, reply)
    \/ Release(r)

SpecConcurrent == InitConcurrent /\ [][NextConcurrent]_vars

(***************************************************************************)
(* Properties.  The vocabulary below is written out structurally, without  *)
(* the handlers' own operators.                                            *)
(***************************************************************************)
\* the session carries a non-empty user id
HasIdentity(s) ==
  /\ s.t = "object"
  /\ "user" \in DOMAIN s.v
  /\ s.v.user.t = "object"
  /\ "id" \in DOMAIN s.v.user.v
  /\ s.v.user.v.id \notin {Null, Str("")}

\* auth() resolved, and to a session without identity
NoIdentity(s) == s # Unassigned /\ ~HasIdentity(s)

OwnId(r) == session[r].v.user.v.id

\* the handler completed with exactly this error response
RespondedError(r, status, message) ==
  completions[r] = <<Resolved([status |-> status, body |-> Obj([error |-> Str(message)])])>>

StaticMessage(method) ==
  CASE method = "POST" -> "Failed to add memory"
    [] method = "GET" -> "Failed to search memories"
    [] method = "DELETE" -> "Failed to delete memory"
    [] method = "PUT" -> "Failed to update memory"

FieldMessage(method) ==
  CASE method = "POST" -> "Content is required"
    [] method = "GET" -> "Query parameter is required"
    [] method = "DELETE" -> "Memory ID is required"
    [] method = "PUT" -> "Memory ID is required"

Field(o, k) == IF o.t = "object" /\ k \in DOMAIN o.v THEN o.v[k] ELSE Undefined

\* the request's required field, Undefined when the request has none
RequiredField(rq) ==
  CASE rq.method = "POST" -> IF rq.body.ok THEN Field(rq.body.value, "content") ELSE Undefined
    [] rq.method = "PUT" -> IF rq.body.ok THEN Field(rq.body.value, "memory_id") ELSE Undefined
    [] rq.method = "GET" -> IF "query" \in DOMAIN rq.url THEN Str(rq.url.query) ELSE Undefined
    [] rq.method = "DELETE" -> IF "id" \in DOMAIN rq.url THEN Str(rq.url.id) ELSE Undefined
    [] OTHER -> Undefined

FieldMissing(rq) == RequiredField(rq) \in {Undefined, Null, Str("")}

KeyMissing == env.PAPR_MEMORY_API_KEY \in {Undefined, Str("")}

\* the handler has run its validation: it is authenticated and past request.json()
Validated(r) == HasIdentity(session[r]) /\ pc[r] \in {"remote", "done"}

\* C1: when auth() yields no session, no user or no user id, the handler
\* answers 401 {error: "Unauthorized"} and issues no remote call, whatever the
\* request and the configuration are.
C1_UnauthorizedIs401 ==
  \A r \in Slots :
    NoIdentity(session[r]) =>
      /\ pc[r] = "done"
      /\ RespondedError(r, 401, "Unauthorized")
      /\ calls[r] = <<>>

\* a POST that would fail validation and configuration is answered 401 first
C1_Witness ==
  \E r \in Slots :
    /\ session[r] = Obj([user |-> EmptyObj])
    /\ req[r].method = "POST"
    /\ req[r].body = Resolved(EmptyObj)
    /\ KeyMissing
    /\ RespondedError(r, 401, "Unauthorized")

\* C2: every add call carries user_id, external_user_id and
\* customMetadata.app_user_id equal to the session's user id and
\* customMetadata.api_source "memory_route", whatever metadata the client sent.
C2_IdentityForced ==
  \A r \in Slots : \A i \in DOMAIN calls[r] :
    calls[r][i].method = "add" =>
      LET md == calls[r][i].args[1].v.metadata.v
      IN /\ HasIdentity(session[r])
         /\ md.user_id = OwnId(r)
         /\ md.external_user_id = OwnId(r)
         /\ md.customMetadata.v.api_source = Str("memory_route")
         /\ md.customMetadata.v.app_user_id = OwnId(r)

\* u1 adds a memory whose metadata claims to be u2's and from another source
C2_Witness ==
  \E r \in Slots :
    /\ Len(calls[r]) = 1
    /\ calls[r][1].method = "add"
    /\ OwnId(r) = Str("u1")
    /\ LET cm == Field(req[r].body.value, "metadata")
       IN /\ Field(cm, "user_id") = Str("u2")
          /\ Field(cm, "external_user_id") = Str("u2")
          /\ Field(Field(cm, "customMetadata"), "api_source") = Str("spoofed")
          /\ Field(Field(cm, "customMetadata"), "app_user_id") = Str("u2")

\* C3: when the remote call rejects, the handler answers 500 with exactly
\* {error: <the operation's static message>}: nothing of the raised error, no
\* success or data field.
C3_RemoteFailureIs500 ==
  \A r \in Slots :
    (settled[r] # <<>> /\ ~settled[r][1].ok) =>
      /\ pc[r] = "done"
      /\ RespondedError(r, 500, StaticMessage(req[r].method))
      /\ StaticMessage(req[r].method) # settled[r][1].error.message
      /\ StaticMessage(req[r].method) # settled[r][1].error.name

C3_Witness ==
  \E r \in Slots :
    /\ req[r].method = "PUT"
    /\ settled[r] = <<Rejected(Error("APIConnectionError", "ECONNRESET"))>>
    /\ pc[r] = "done"

\* C4: an authenticated request whose required field is absent or empty is
\* answered 400 with the field's message and issues no remote call.  Read here
\* for the requests whose body, where the handler reads one, is well-formed JSON.
C4_MissingFieldIs400 ==
  \A r \in Slots :
    (/\ Validated(r)
     /\ FieldMissing(req[r])
     /\ req[r].method \in {"POST", "PUT"} => req[r].body.ok) =>
      /\ pc[r] = "done"
      /\ RespondedError(r, 400, FieldMessage(req[r].method))
      /\ calls[r] = <<>>

\* C4 holds of the requests whose URL or JSON object body lacks the field
C4_MissingFieldOfObjectIs400 ==
  \A r \in Slots :
    (/\ Validated(r)
     /\ FieldMissing(req[r])
     /\ req[r].method \in {"POST", "PUT"} => (req[r].body.ok /\ ~Nullish(req[r].body.value))) =>
      /\ pc[r] = "done"
      /\ RespondedError(r, 400, FieldMessage(req[r].method))
      /\ calls[r] = <<>>

\* C5 as claimed: with the API key not configured, the error of getPaprClient
\* escapes the handler and no remote call is issued.
C5_InitFailureEscapes ==
  \A r \in Slots :
    (Validated(r) /\ ~FieldMissing(req[r]) /\ KeyMissing) =>
      /\ pc[r] = "done"
      /\ Len(completions[r]) = 1
      /\ ~completions[r][1].ok
      /\ calls[r] = <<>>

\* C5 as amended: with the API key not configured, the error of getPaprClient
\* is caught by the handler's own catch block: it is logged, the handler
\* answers 500 with the operation's static message, and no remote call is issued.
C5_InitFailureIs500 ==
  \A r \in Slots :
    (Validated(r) /\ ~FieldMissing(req[r]) /\ KeyMissing) =>
      /\ pc[r] = "done"
      /\ RespondedError(r, 500, StaticMessage(req[r].method))
      /\ errlog[r] = <<Error("Error", "PAPR_MEMORY_API_KEY is not defined")>>
      /\ calls[r] = <<>>

C5_Witness ==
  \E r \in Slots :
    /\ HasIdentity(session[r])
    /\ req[r].method = "DELETE"
    /\ RequiredField(req[r]) = Str("m1")
    /\ env.PAPR_MEMORY_API_KEY = Undefined
    /\ pc[r] = "done"

\* C6: every search call carries the session's user id and max_memories 25,
\* whatever the max_memories query parameter is.
C6_SearchCapFixed ==
  \A r \in Slots : \A i \in DOMAIN calls[r] :
    calls[r][i].method = "search" =>
      /\ HasIdentity(session[r])
      /\ calls[r][i].args[1] = Obj([query |-> Str(req[r].url.query), user_id |-> OwnId(r)])
      /\ calls[r][i].args[2] = Obj([query |-> Obj([max_memories |-> Num(25)])])

C6_Witness ==
  \E r \in Slots :
    /\ Len(calls[r]) = 1
    /\ calls[r][1].method = "search"
    /\ "max_memories" \in DOMAIN req[r].url
    /\ req[r].url.max_memories = "100"

\* C7: on an add call, a non-empty client topics sequence arrives with the
\* same elements in the same order; absent topics and absent 'emoji tags'
\* arrive as the empty sequence, an absent sourceType as "PaprChat".
C7_TopicsRoundTrip ==
  \A r \in Slots : \A i \in DOMAIN calls[r] :
    calls[r][i].method = "add" =>
      LET cm == Field(req[r].body.value, "metadata")
          md == calls[r][i].args[1].v.metadata.v
      IN /\ (Field(cm, "topics").t = "array" /\ Field(cm, "topics").v # <<>>)
              => md.topics = Field(cm, "topics")
         /\ Field(cm, "topics") = Undefined => md.topics = Arr(<<>>)
         /\ Field(cm, "emoji tags") = Undefined => md["emoji tags"] = Arr(<<>>)
         /\ Field(cm, "sourceType") = Undefined => md.sourceType = Str("PaprChat")

C7_Witness ==
  \E r \in Slots :
    /\ Len(calls[r]) = 1
    /\ calls[r][1].method = "add"
    /\ Field(Field(req[r].body.value, "metadata"), "topics") = Arr(<<"b", "a">>)
    /\ Field(Field(req[r].body.value, "metadata"), "sourceType") = Undefined
    /\ calls[r][1].args[1].v.metadata.v.topics = Arr(<<"b", "a">>)

\* C8: the update call receives the client's memory_id, content, metadata and
\* type as sent: no identity field is added or overwritten.
C8_UpdatePassThrough ==
  \A r \in Slots : \A i \in DOMAIN calls[r] :
    calls[r][i].method = "update" =>
      LET b == req[r].body.value
      IN calls[r][i].args =
           <<Field(b, "memory_id"),
             Obj([content |-> Field(b, "content"),
                  metadata |-> Field(b, "metadata"),
                  type |-> Field(b, "type")])>>

\* u1 updates with metadata that names u2, and it is forwarded
C8_Witness ==
  \E r \in Slots :
    /\ Len(calls[r]) = 1
    /\ calls[r][1].method = "update"
    /\ OwnId(r) = Str("u1")
    /\ Field(calls[r][1].args[2], "type") = Undefined
    /\ Field(Field(calls[r][1].args[2], "metadata"), "user_id") = Str("u2")

\* C9: a request issues at most one remote call and ends in exactly one
\* response; a failed call is not issued again, and a success response is
\* produced only when that one call returned.
C9_OneCallOneResponse ==
  \A r \in Slots :
    /\ Len(calls[r]) <= 1
    /\ Len(settled[r]) <= Len(calls[r])
    /\ Len(completions[r]) = (IF pc[r] = "done" THEN 1 ELSE 0)
    /\ \A i \in DOMAIN completions[r] :
         /\ completions[r][i].ok
         /\ Field(completions[r][i].value.body, "success") # Undefined
              => (Len(calls[r]) = 1 /\ settled[r] # <<>> /\ settled[r][1].ok)
    /\ (settled[r] # <<>> /\ ~settled[r][1].ok) => pc[r] = "done"

C9_Witness ==
  \E r \in Slots :
    /\ pc[r] = "done"
    /\ Len(calls[r]) = 1
    /\ settled[r] # <<>>
    /\ ~settled[r][1].ok
    /\ Len(completions[r]) = 1

\* C10: under any interleaving, what a request passes to the remote service
\* and what it answers come from its own session, its own input and its own
\* call's result.
C10_RequestsIsolated ==
  \A r \in Slots :
    /\ \A i \in DOMAIN calls[r] :
         LET c == calls[r][i]
             b == req[r].body.value
         IN /\ HasIdentity(session[r])
            /\ c.method = "add" =>
                 LET md == c.args[1].v.metadata.v
                 IN /\ c.args[1].v.content = Field(b, "content")
                    /\ md.user_id = OwnId(r)
                    /\ md.external_user_id = OwnId(r)
                    /\ md.customMetadata.v.app_user_id = OwnId(r)
                    /\ md.topics = Field(Field(b, "metadata"), "topics")
            /\ c.method = "search" =>
                 c.args[1] = Obj([query |-> Str(req[r].url.query), user_id |-> OwnId(r)])
            /\ c.method = "delete" => c.args = <<Str(req[r].url.id)>>
            /\ c.method = "update" =>
                 /\ c.args[1] = Field(b, "memory_id")
                 /\ c.args[2].v.metadata = Field(b, "metadata")
    /\ \A i \in DOMAIN completions[r] :
         LET response == completions[r][i].value
         IN response.status = 200 =>
              /\ settled[r] # <<>>
              /\ settled[r][1].ok
              /\ Field(response.body, "data") =
                   (IF req[r].method \in {"POST", "GET"}
                      THEN Field(settled[r][1].value, "data")
                      ELSE settled[r][1].value)

\* two callers in flight at once, each answered with its own result
C10_Witness ==
  \E r1, r2 \in Slots :
    /\ req[r1].method = "POST" /\ req[r2].method = "POST"
    /\ req[r1].body # req[r2].body
    /\ HasIdentity(session[r1]) /\ HasIdentity(session[r2])
    /\ OwnId(r1) = Str("u1") /\ OwnId(r2) = Str("u2")
    /\ pc[r1] = "done" /\ pc[r2] = "done"
    /\ Len(calls[r1]) = 1 /\ Len(calls[r2]) = 1
    /\ completions[r1][1].value.status = 200 /\ completions[r2][1].value.status = 200
    /\ Field(completions[r1][1].value.body, "data") = Str("d1")
    /\ Field(completions[r2][1].value.body, "data") = Str("d2")
====
